---- MODULE Spec2Model ----
(***************************************************************************)
(* Model of the random-number microservice (src/src/main.rs).              *)
(*                                                                         *)
(* Two parts share one set of variables:                                   *)
(*   - main(): reading microservice.toml, parsing the command line,        *)
(*     initialising the logger, resolving the bind address, binding;       *)
(*   - microservice_handler(): routing, format resolution, body decoding,  *)
(*     sampling (handle_request), serialisation and error mapping.         *)
(***************************************************************************)
EXTENDS Integers, Sequences, FiniteSets, TLC

VARIABLES
    pc,          \* position of main()
    argv,        \* command line: [sub |-> <<..>>, address |-> Option(String)]
    envAddress,  \* the ADDRESS environment variable: Option(String)
    file,        \* what microservice.toml is on disk
    config,      \* Option(Config), the local `config` of main()
    matches,     \* clap's ArgMatches, the local `matches` of main()
    loggerInit,  \* whether pretty_env_logger::init() has run
    emitted,     \* records the logger has actually written
    consulted,   \* sources main() has read so far: "file", "args", "env"
    addr,        \* Option(SocketAddr), the local `addr` of main()
    reqs,        \* in-flight and answered requests, by request slot
    sent         \* what clients observed, in the order it was sent

vars == <<pc, argv, envAddress, file, config, matches, loggerInit, emitted,
          consulted, addr, reqs, sent>>

mainVars == <<pc, argv, envAddress, file, config, matches, loggerInit, emitted,
              consulted, addr>>

----------------------------------------------------------------------------
(* Option<T> *)

None == [some |-> FALSE]

Some(v) == [some |-> TRUE, val |-> v]

\* Option::or (main.rs:148, 150): self if it is Some, else the argument.
OptOr(a, b) == IF a.some THEN a ELSE b

----------------------------------------------------------------------------
(* Addresses.  Strings are what the sources hold; SocketAddr is what       *)
(* str::parse yields.                                                      *)

SocketAddrOf(a, b, c, d, port) == [ip |-> <<a, b, c, d>>, port |-> port]

\* str::parse::<SocketAddr> (main.rs:149) and the deserialisation of
\* Config.address (main.rs:32): an "ip:port" string parses, anything else
\* does not.
ParseAddr(s) ==
    CASE s = "0.0.0.0:9000"   -> Some(SocketAddrOf(0, 0, 0, 0, 9000))
      [] s = "10.0.0.1:80"    -> Some(SocketAddrOf(10, 0, 0, 1, 80))
      [] s = "192.168.1.5:3000" -> Some(SocketAddrOf(192, 168, 1, 5, 3000))
      [] OTHER -> None

\* ([127, 0, 0, 1], 8080).into()   (main.rs:151)
DefaultAddr == SocketAddrOf(127, 0, 0, 1, 8080)

\* Values the --address flag may carry.
FlagStrings == {"0.0.0.0:9000", "localhost"}

\* Values the ADDRESS environment variable may hold.
EnvStrings == {"10.0.0.1:80", "not-an-address"}

\* States of microservice.toml on disk: absent, present but unreadable,
\* not TOML, TOML whose address does not parse, or TOML with an address.
FileStates ==
    { [kind |-> "missing"], [kind |-> "unreadable"], [kind |-> "badtoml"],
      [kind |-> "toml", address |-> "bogus"],
      [kind |-> "toml", address |-> "192.168.1.5:3000"] }

\* Command lines: no subcommand, `run [--address X]`, `run [--address X] key`.
ArgvSet ==
    { [sub |-> <<>>, address |-> None] }
    \cup { [sub |-> s, address |-> a] :
             s \in { <<"run">>, <<"run", "key">> },
             a \in {None} \cup { Some(x) : x \in FlagStrings } }

----------------------------------------------------------------------------
(* Logging: the log crate's macros reach the installed logger; before      *)
(* pretty_env_logger::init() (main.rs:142) no logger is installed and the  *)
(* record is discarded.                                                    *)

LogWith(inited, out, level, msg) ==
    IF inited THEN Append(out, [level |-> level, msg |-> msg]) ELSE out

Log(out, level, msg) == LogWith(loggerInit, out, level, msg)

----------------------------------------------------------------------------
(* main.rs:111-122: the configuration file.                                *)

\* File::open + read_to_string + toml::from_str::<Config>: Ok(Config) or an
\* io::Error.
LoadConfig(f) ==
    CASE f.kind = "missing"    -> [ok |-> FALSE, err |-> "No such file or directory"]
      [] f.kind = "unreadable" -> [ok |-> FALSE, err |-> "read failed"]
      [] f.kind = "badtoml"    -> [ok |-> FALSE, err |-> "expected an equals"]
      [] f.kind = "toml" ->
            IF ParseAddr(f.address).some
            THEN [ok |-> TRUE, config |-> [address |-> ParseAddr(f.address).val]]
            ELSE [ok |-> FALSE, err |-> "invalid socket address syntax"]

ReadConfig ==
    /\ pc = "start"
    /\ LET r == LoadConfig(file) IN
         /\ config' = IF r.ok THEN Some(r.config) ELSE None
         /\ emitted' = IF r.ok THEN emitted
                       ELSE Log(emitted, "warn", "Cannot read config file")
    /\ consulted' = consulted \cup {"file"}
    /\ pc' = "config_read"
    /\ UNCHANGED <<argv, envAddress, file, matches, loggerInit, addr, reqs, sent>>

----------------------------------------------------------------------------
(* main.rs:124-140: the command line.                                      *)

NoArgs == [n \in {} |-> ""]

NoMatches == [args |-> NoArgs, subcommand |-> <<>>]

\* The ArgMatches of one subcommand level: `address` is an argument of the
\* `run` subcommand (main.rs:127-135), so its value is stored in the matches
\* of `run`, and `key` is a subcommand of `run` (main.rs:136-138).
RunMatches(a) ==
    [args |-> IF a.address.some THEN [n \in {"address"} |-> a.address.val] ELSE NoArgs,
     subcommand |-> IF Len(a.sub) > 1
                    THEN << [name |-> a.sub[2], matches |-> NoMatches] >>
                    ELSE <<>>]

\* App::get_matches for the top-level App, which defines no argument of its
\* own (main.rs:124-126).
GetMatchesOf(a) ==
    [args |-> NoArgs,
     subcommand |-> IF Len(a.sub) > 0
                    THEN << [name |-> a.sub[1], matches |-> RunMatches(a)] >>
                    ELSE <<>>]

\* ArgMatches::value_of: the value of an argument of THIS level, None when
\* this level holds no such argument.
value_of(m, name) ==
    IF name \in DOMAIN m.args THEN Some(m.args[name]) ELSE None

\* get_matches with a subcommand given.
GetMatches ==
    /\ pc = "config_read"
    /\ Len(argv.sub) > 0
    /\ matches' = GetMatchesOf(argv)
    /\ consulted' = consulted \cup {"args"}
    /\ pc' = "matched"
    /\ UNCHANGED <<argv, envAddress, file, config, loggerInit, emitted, addr, reqs, sent>>

\* AppSettings::SubcommandRequiredElseHelp (main.rs:125): without a
\* subcommand clap prints the help and exits the process.
HelpExit ==
    /\ pc = "config_read"
    /\ Len(argv.sub) = 0
    /\ consulted' = consulted \cup {"args"}
    /\ pc' = "exited"
    /\ UNCHANGED <<argv, envAddress, file, config, matches, loggerInit, emitted, addr,
                   reqs, sent>>

----------------------------------------------------------------------------
(* main.rs:142-144: the logger.                                            *)

InitLogger ==
    /\ pc = "matched"
    /\ loggerInit' = TRUE
    /\ emitted' = LogWith(TRUE, LogWith(TRUE, emitted, "info", "Rand Microservice - v0.1.0"),
                          "trace", "Starting...")
    /\ pc' = "logging"
    /\ UNCHANGED <<argv, envAddress, file, config, matches, consulted, addr, reqs, sent>>

----------------------------------------------------------------------------
(* main.rs:145-152: the address chain.                                     *)

\* Option::and_then(|addr| addr.parse().ok())   (main.rs:149)
AndThenParse(o) == IF o.some THEN ParseAddr(o.val) ELSE None

\* Mutant: the chain without `.or(config.map(..))`.
ResolveAddrNoConfig(m, env, cfg) ==
    OptOr(AndThenParse(OptOr(value_of(m, "address"), env)), Some(DefaultAddr)).val

\* Mutant: the configuration file ahead of the flag and the environment.
ResolveAddrConfigFirst(m, env, cfg) ==
    OptOr(OptOr(IF cfg.some THEN Some(cfg.val.address) ELSE None,
                AndThenParse(OptOr(value_of(m, "address"), env))),
          Some(DefaultAddr)).val

\* matches.value_of("address").or(env::var("ADDRESS").ok())
\*     .and_then(parse).or(config.map(|c| c.address)).or_else(default).unwrap()
ResolveAddr(m, env, cfg) ==
    OptOr(OptOr(AndThenParse(OptOr(value_of(m, "address"), env)),
                IF cfg.some THEN Some(cfg.val.address) ELSE None),
          Some(DefaultAddr)).val

Resolve ==
    /\ pc = "logging"
    /\ addr' = Some(ResolveAddr(matches, envAddress, config))
    \* Option::or takes its argument by value: env::var runs in every case.
    /\ consulted' = consulted \cup {"env"}
    /\ emitted' = Log(emitted, "debug", "Trying to bind server to address")
    /\ pc' = "resolved"
    /\ UNCHANGED <<argv, envAddress, file, config, matches, loggerInit, reqs, sent>>

----------------------------------------------------------------------------
(* main.rs:155-161: binding.  Server::bind panics when the address cannot  *)
(* be bound.                                                               *)

Bind ==
    /\ pc = "resolved"
    /\ emitted' = Log(Log(Log(emitted, "trace", "Creating service handler..."),
                          "info", "Used address"), "debug", "Run!")
    /\ pc' = "serving"
    /\ UNCHANGED <<argv, envAddress, file, config, matches, loggerInit, consulted, addr,
                   reqs, sent>>

BindFail ==
    /\ pc = "resolved"
    /\ pc' = "aborted"
    /\ UNCHANGED <<argv, envAddress, file, config, matches, loggerInit, emitted,
                   consulted, addr, reqs, sent>>

----------------------------------------------------------------------------
(* Process start: any command line, environment and file.                  *)

InitMain ==
    /\ pc = "start"
    /\ argv \in ArgvSet
    /\ envAddress \in {None} \cup { Some(x) : x \in EnvStrings }
    /\ file \in FileStates
    /\ config = None
    /\ matches = NoMatches
    /\ loggerInit = FALSE
    /\ emitted = <<>>
    /\ consulted = {}
    /\ addr = None
    /\ reqs = <<>>
    /\ sent = <<>>

NextMain ==
    \/ ReadConfig
    \/ GetMatches
    \/ HelpExit
    \/ InitLogger
    \/ Resolve
    \/ Bind
    \/ BindFail

SpecMain == InitMain /\ [][NextMain]_vars

----------------------------------------------------------------------------
(* Properties of main().                                                   *)

\* main() is past the address chain.
Resolved == pc \in {"resolved", "serving", "aborted"}

\* Whether an optional source string is present and parses.
Usable(o) == o.some /\ ParseAddr(o.val).some

\* The address field of microservice.toml, when the file holds one.
FileAddress == IF file.kind = "toml" THEN Some(file.address) ELSE None

\* The chain as specified: the first of flag, ADDRESS, file, default that is
\* present and parses.
FirstUsable ==
    IF Usable(argv.address) THEN ParseAddr(argv.address.val).val
    ELSE IF Usable(envAddress) THEN ParseAddr(envAddress.val).val
    ELSE IF Usable(FileAddress) THEN ParseAddr(FileAddress.val).val
    ELSE DefaultAddr

\* C5: the effective bind address is the first of [--address flag, ADDRESS,
\* address of microservice.toml, 127.0.0.1:8080] that is present and parses;
\* in particular a valid `run --address A` always yields A.
C5_ConfigPriority == Resolved => addr = Some(FirstUsable)

\* C6: a present but unparseable source does not abort resolution and makes
\* the next source the candidate: with an unparseable flag a valid ADDRESS is
\* the effective address; with an unparseable ADDRESS the configuration file
\* is next (then the default); the address is always a parsed value.
C6_FallThrough ==
    Resolved =>
        /\ addr.some
        /\ (argv.address.some /\ ~Usable(argv.address) /\ Usable(envAddress))
              => addr.val = ParseAddr(envAddress.val).val
        /\ (envAddress.some /\ ~Usable(envAddress) /\ ~Usable(argv.address))
              => addr.val = IF Usable(FileAddress)
                            THEN ParseAddr(FileAddress.val).val
                            ELSE DefaultAddr
        /\ addr.val \in { ParseAddr(o.val).val :
                             o \in { x \in {argv.address, envAddress, FileAddress} :
                                        Usable(x) } }
                         \cup {DefaultAddr}

\* An unparseable flag and a valid ADDRESS: the server runs on ADDRESS.
C6_Witness ==
    /\ pc = "serving"
    /\ argv.address = Some("localhost")
    /\ envAddress = Some("10.0.0.1:80")
    /\ addr = Some(SocketAddrOf(10, 0, 0, 1, 80))

\* Whether the logger has written a warning.
Warned == \E i \in 1..Len(emitted) : emitted[i].level = "warn"

\* C9: when microservice.toml is missing, unreadable or does not parse,
\* startup goes on, a warning is actually written by the logger, and
\* resolution ends with an address from the other sources or the default.
C9_ConfigFailureWarned ==
    (Resolved /\ ~LoadConfig(file).ok) =>
        /\ Warned
        /\ config = None
        /\ addr.some

----------------------------------------------------------------------------
(* The HTTP side.                                                          *)
(*                                                                         *)
(* f64 values are counted in units of 1/F64Den; the raw output of the      *)
(* generator is a word in 0..RngRange-1.                                   *)

F64Den == 4

RngRange == 4

\* i32::MAX, the upper end of Range<i32> (main.rs:45).
I32Max == 2147483647

Idle == [state |-> "idle"]

(* JSON documents, as serde_json reads them. *)

JStr(x) == [t |-> "string", s |-> x]

\* An integer token: its sign and its decimal digits.
JInt(neg, digits) == [t |-> "int", neg |-> neg, digits |-> digits]

\* A token with a fraction or exponent, as a count of 1/F64Den.
JFloat(q) == [t |-> "float", q |-> q]

JObj(f) == [t |-> "object", fields |-> f]

JNull == [t |-> "null"]

\* Bytes that are not JSON at all.
NotJson == [t |-> "invalid"]

Keys(o) == DOMAIN o.fields

(* Numbers. *)

\* i32::MIN
I32Min == (0 - I32Max) - 1

\* The value of a digit string of a non-negative token while it stays
\* within i32, else None.
RECURSIVE Accumulate(_, _, _)
Accumulate(digits, k, acc) ==
    IF k > Len(digits) THEN Some(acc)
    ELSE IF acc > (I32Max - digits[k]) \div 10 THEN None
    ELSE Accumulate(digits, k + 1, acc * 10 + digits[k])

\* The same for a negative token, accumulated downwards.
RECURSIVE AccumulateNeg(_, _, _)
AccumulateNeg(digits, k, acc) ==
    IF k > Len(digits) THEN Some(acc)
    ELSE IF acc < (I32Min + digits[k] + 9) \div 10 THEN None
    ELSE AccumulateNeg(digits, k + 1, acc * 10 - digits[k])

\* Deserialisation of an i32 (the fields of Range<i32>, main.rs:45): only an
\* integer token within i32 is accepted.
DecodeI32(v) ==
    IF v.t # "int" THEN None
    ELSE IF v.neg THEN AccumulateNeg(v.digits, 1, 0)
    ELSE Accumulate(v.digits, 1, 0)

\* The value of an integer token.
RECURSIVE TokenValue(_, _, _)
TokenValue(digits, k, acc) ==
    IF k > Len(digits) THEN acc ELSE TokenValue(digits, k + 1, acc * 10 + digits[k])

\* Deserialisation of an f64 (main.rs:48-49, 52): any number token.
DecodeF64(v) ==
    IF v.t = "float" THEN Some(v.q)
    ELSE IF v.t = "int"
         THEN Some((IF v.neg THEN 0 - TokenValue(v.digits, 1, 0)
                    ELSE TokenValue(v.digits, 1, 0)) * F64Den)
    ELSE None

(* serde_json::from_slice::<RngRequest>   (main.rs:40-54, 86) *)

ParseErr(what, arg) == [ok |-> FALSE, err |-> <<what, arg>>]

DecodeUniform(ps) ==
    IF "start" \notin Keys(ps) THEN ParseErr("missing field", "start")
    ELSE IF "end" \notin Keys(ps) THEN ParseErr("missing field", "end")
    ELSE LET lo == DecodeI32(ps.fields["start"])
             hi == DecodeI32(ps.fields["end"]) IN
         IF ~lo.some THEN ParseErr("invalid value, expected i32", "start")
         ELSE IF ~hi.some THEN ParseErr("invalid value, expected i32", "end")
         ELSE [ok |-> TRUE,
               req |-> [variant |-> "Uniform", start |-> lo.val, end |-> hi.val]]

DecodeNormal(ps) ==
    IF "mean" \notin Keys(ps) THEN ParseErr("missing field", "mean")
    ELSE IF "std_dev" \notin Keys(ps) THEN ParseErr("missing field", "std_dev")
    ELSE LET m == DecodeF64(ps.fields["mean"])
             sd == DecodeF64(ps.fields["std_dev"]) IN
         IF ~m.some THEN ParseErr("invalid type, expected f64", "mean")
         ELSE IF ~sd.some THEN ParseErr("invalid type, expected f64", "std_dev")
         ELSE [ok |-> TRUE,
               req |-> [variant |-> "Normal", mean |-> m.val, std_dev |-> sd.val]]

DecodeBernoulli(ps) ==
    IF "p" \notin Keys(ps) THEN ParseErr("missing field", "p")
    ELSE LET pp == DecodeF64(ps.fields["p"]) IN
         IF ~pp.some THEN ParseErr("invalid type, expected f64", "p")
         ELSE [ok |-> TRUE, req |-> [variant |-> "Bernoulli", p |-> pp.val]]

\* The adjacently tagged enum: tag "distribution", content "parameters",
\* variant names in lower case.
Decode(b) ==
    IF b.t = "invalid" THEN ParseErr("expected value", "line 1 column 1")
    ELSE IF b.t # "object" THEN ParseErr("invalid type", b.t)
    ELSE IF "distribution" \notin Keys(b) THEN ParseErr("missing field", "distribution")
    ELSE LET tag == b.fields["distribution"] IN
         IF tag.t # "string" THEN ParseErr("invalid type", tag.t)
         ELSE IF tag.s \notin {"uniform", "normal", "bernoulli"}
              THEN ParseErr("unknown variant", tag.s)
         ELSE IF "parameters" \notin Keys(b) THEN ParseErr("missing field", "parameters")
         ELSE LET ps == b.fields["parameters"] IN
              IF ps.t # "object" THEN ParseErr("invalid type", ps.t)
              ELSE CASE tag.s = "uniform"   -> DecodeUniform(ps)
                     [] tag.s = "normal"    -> DecodeNormal(ps)
                     [] tag.s = "bernoulli" -> DecodeBernoulli(ps)

(* handle_request   (main.rs:63-73) *)

Panic(msg) == [panic |-> TRUE, msg |-> msg]

Value(v) == [panic |-> FALSE, value |-> v]

\* Mutant: the range taken as closed, [low, high].
SampleUniformInclusive(low, high, r) ==
    IF ~(low < high) THEN Panic("Uniform::new called with low >= high")
    ELSE Value((low + (r * (high - low + 1)) \div RngRange) * F64Den)

\* rng.sample(Uniform::from(range)) as f64: Uniform::new asserts low < high;
\* the sample is low plus the high word of r * (high - low).
SampleUniform(low, high, r) ==
    IF ~(low < high) THEN Panic("Uniform::new called with low >= high")
    ELSE Value((low + (r * (high - low)) \div RngRange) * F64Den)

\* rng.sample(Normal::new(mean, std_dev)): Normal::new asserts
\* std_dev >= 0; the sample is mean + std_dev * z for a standard normal z,
\* here a whole number around 0 derived from the raw word.
SampleNormal(mean, std_dev, r) ==
    IF std_dev < 0 THEN Panic("Normal::new called with std_dev < 0")
    ELSE Value(mean + std_dev * (r - RngRange \div 2))

\* Mutant: the comparison of the raw word with p taken as <=.
SampleBernoulliLeq(p, r) ==
    IF p < 0 \/ p > F64Den THEN Panic("Bernoulli::new not called with 0 <= p <= 1")
    ELSE LET p_int == IF p < F64Den THEN (p * RngRange) \div F64Den ELSE RngRange IN
         Value(IF p_int = RngRange \/ r <= p_int THEN F64Den ELSE 0)

\* rng.sample(Bernoulli::new(p)) as i8 as f64: Bernoulli::new asserts
\* 0 <= p <= 1; p = 1 always succeeds, otherwise the raw word is compared
\* with p scaled to the word range.
SampleBernoulli(p, r) ==
    IF p < 0 \/ p > F64Den THEN Panic("Bernoulli::new not called with 0 <= p <= 1")
    ELSE LET p_int == IF p < F64Den THEN (p * RngRange) \div F64Den ELSE RngRange IN
         Value(IF p_int = RngRange \/ r < p_int THEN F64Den ELSE 0)

handle_request(request, r) ==
    CASE request.variant = "Uniform"   -> SampleUniform(request.start, request.end, r)
      [] request.variant = "Normal"    -> SampleNormal(request.mean, request.std_dev, r)
      [] request.variant = "Bernoulli" -> SampleBernoulli(request.p, r)

(* serialize   (main.rs:56-61) *)

\* Mutant: every format is rendered as JSON.
serializeAny(format, value) == [ok |-> TRUE, bytes |-> [kind |-> "json", value |-> value]]

serialize(format, value) ==
    IF format = "json"
    THEN [ok |-> TRUE, bytes |-> [kind |-> "json", value |-> value]]
    ELSE [ok |-> FALSE, err |-> <<"unsupported format", format>>]

(* The query string   (main.rs:80-84) *)

\* queryst::parse: the query as a JSON value, or an error.
QueryParse(q) ==
    CASE q = ""             -> [ok |-> TRUE, value |-> JObj(NoArgs)]
      [] q = "format=json"  -> [ok |-> TRUE, value |-> JObj("format" :> JStr("json"))]
      [] q = "format=xml"   -> [ok |-> TRUE, value |-> JObj("format" :> JStr("xml"))]
      [] q = "format[]=xml" -> [ok |-> TRUE, value |-> JObj("format" :> [t |-> "array"])]
      [] q = "seed=1"       -> [ok |-> TRUE, value |-> JObj("seed" :> JStr("1"))]
      [] q = "format=%FF"   -> [ok |-> FALSE]

\* Value indexing by key: Null unless an object holding the key.
Index(v, key) ==
    IF v.t = "object" /\ key \in Keys(v) THEN v.fields[key] ELSE JNull

\* Value::as_str
as_str(v) == IF v.t = "string" THEN Some(v.s) ELSE None

\* req.uri().query().unwrap_or(""), queryst::parse(..).unwrap_or(Null),
\* query["format"].as_str().unwrap_or("json")
ResolveFormat(query) ==
    LET uri == IF query.some THEN query.val ELSE ""
        parsed == QueryParse(uri)
        value == IF parsed.ok THEN parsed.value ELSE JNull
        f == as_str(Index(value, "format"))
    IN IF f.some THEN f.val ELSE "json"

(* microservice_handler   (main.rs:75-108) *)

\* Mutant: the path matched by prefix.
IsRoutePrefix(method, path) == method = "POST" /\ path \in {"/random", "/random/"}

\* (&Method::POST, "/random")
IsRoute(method, path) == method = "POST" /\ path = "/random"

NotFoundResponse == [status |-> 404, body |-> [kind |-> "text", text |-> <<"Not Found">>]]

\* The closure run on the buffered body (main.rs:85-97): decode, sample,
\* serialize, and map the Result to a response; a panic of the sampling
\* step (raised while the distribution is built, before the generator is
\* used) unwinds through it.
Respond(format, b, r) ==
    LET d == Decode(b) IN
    IF ~d.ok
    THEN [panic |-> FALSE, drew |-> FALSE, value |-> None,
          resp |-> [status |-> 422, body |-> [kind |-> "text", text |-> d.err]]]
    ELSE LET h == handle_request(d.req, r) IN
         IF h.panic THEN [panic |-> TRUE, drew |-> FALSE, value |-> None]
         ELSE LET out == serialize(format, h.value) IN
              [panic |-> FALSE, drew |-> TRUE, value |-> Some(h.value),
               resp |-> IF out.ok
                        THEN [status |-> 200, body |-> out.bytes]
                        ELSE [status |-> 422,
                              body |-> [kind |-> "text", text |-> out.err]]]

\* A request arrives and microservice_handler is called on it: the route
\* leaves a future waiting for the body, anything else is answered at once.
Dispatch(i, method, path, query) ==
    /\ pc = "serving"
    /\ reqs[i].state = "idle"
    /\ LET base == [method |-> method, path |-> path, query |-> query,
                    arrived |-> Len(sent), body |-> None, draw |-> None,
                    value |-> None]
       IN IF IsRoute(method, path)
          THEN /\ reqs' = [reqs EXCEPT ![i] =
                    base @@ [state |-> "reading", format |-> Some(ResolveFormat(query)),
                             resp |-> None, answered |-> 0]]
               /\ sent' = sent
          ELSE /\ reqs' = [reqs EXCEPT ![i] =
                    base @@ [state |-> "done", format |-> None,
                             resp |-> Some(NotFoundResponse),
                             answered |-> Len(sent) + 1]]
               /\ sent' = Append(sent, i)
    /\ UNCHANGED mainVars

\* Mutant: the format of the response taken from a value shared by the
\* requests in flight (the format of the lowest waiting slot).
BodyReadSharedFormat(i, b, r) ==
    /\ pc = "serving"
    /\ reqs[i].state = "reading"
    /\ LET j == CHOOSE k \in DOMAIN reqs :
                    /\ reqs[k].state = "reading"
                    /\ \A l \in DOMAIN reqs : reqs[l].state = "reading" => k <= l
           out == Respond(reqs[j].format.val, b, r) IN
         reqs' = [reqs EXCEPT ![i] =
                    [reqs[i] EXCEPT !.state = IF out.panic THEN "panicked" ELSE "done",
                                    !.body = Some(b),
                                    !.draw = IF out.drew THEN Some(r) ELSE None,
                                    !.value = out.value,
                                    !.resp = IF out.panic THEN None ELSE Some(out.resp),
                                    !.answered = Len(sent) + 1]]
    /\ sent' = Append(sent, i)
    /\ UNCHANGED mainVars

\* The body has been read in full (concat2 resolves) and the closure runs.
\* A panic ends the request's task: nothing is written, the connection
\* closes.
BodyRead(i, b, r) ==
    /\ pc = "serving"
    /\ reqs[i].state = "reading"
    /\ LET out == Respond(reqs[i].format.val, b, r) IN
         reqs' = [reqs EXCEPT ![i] =
                    [reqs[i] EXCEPT !.state = IF out.panic THEN "panicked" ELSE "done",
                                    !.body = Some(b),
                                    !.draw = IF out.drew THEN Some(r) ELSE None,
                                    !.value = out.value,
                                    !.resp = IF out.panic THEN None ELSE Some(out.resp),
                                    !.answered = Len(sent) + 1]]
    /\ sent' = Append(sent, i)
    /\ UNCHANGED mainVars

----------------------------------------------------------------------------
(* Inputs of the HTTP side.                                                *)

Methods == {"GET", "POST"}

Paths == {"/random", "/random/", "/"}

Queries ==
    {None} \cup { Some(q) : q \in {"format=json", "format=xml", "format[]=xml",
                                   "seed=1", "format=%FF"} }

\* Integer tokens: -2, 0, 3, and one past each end of i32.
Minus2 == JInt(TRUE, <<2>>)

Zero == JInt(FALSE, <<0>>)

Three == JInt(FALSE, <<3>>)

PastI32Max == JInt(FALSE, <<2, 1, 4, 7, 4, 8, 3, 6, 4, 8>>)

PastI32Min == JInt(TRUE, <<2, 1, 4, 7, 4, 8, 3, 6, 4, 9>>)

Request(tag, ps) == JObj("distribution" :> JStr(tag) @@ "parameters" :> JObj(ps))

\* start < end, start = end, start > end, and bounds outside i32.
UniformBodies ==
    { Request("uniform", "start" :> ab[1] @@ "end" :> ab[2]) :
        ab \in { <<Zero, Three>>, <<Minus2, Three>>, <<Minus2, Zero>>,
                 <<Three, Three>>, <<Three, Zero>>,
                 <<Zero, PastI32Max>>, <<PastI32Min, Three>>,
                 <<PastI32Min, PastI32Max>> } }
    \cup { Request("uniform", "start" :> JInt(FALSE, <<1>>)),
           Request("uniform", "start" :> JStr("1") @@ "end" :> Three),
           Request("uniform", "start" :> JFloat(6) @@ "end" :> Three) }

NormalBodies ==
    { Request("normal", "mean" :> m @@ "std_dev" :> sd) :
        m \in {JInt(FALSE, <<1>>), JFloat(F64Den + 2)},
        sd \in {JFloat(0 - F64Den), JInt(FALSE, <<0>>), JFloat(F64Den \div 2)} }
    \cup { Request("normal", "mean" :> JInt(FALSE, <<1>>)) }

BernoulliBodies ==
    { Request("bernoulli", "p" :> pp) :
        pp \in {JFloat(0 - 1), JInt(FALSE, <<0>>), JFloat(F64Den \div 2),
                JInt(FALSE, <<1>>), JFloat(F64Den + 1), JStr("1")} }
    \cup { Request("bernoulli", NoArgs) }

MalformedBodies ==
    { NotJson, JObj(NoArgs), JStr("uniform"),
      JObj("distribution" :> JStr("bogus")),
      JObj("distribution" :> JStr("uniform")),
      JObj("distribution" :> JStr("Uniform") @@ "parameters" :> JObj(NoArgs)) }

Bodies == UniformBodies \cup NormalBodies \cup BernoulliBodies \cup MalformedBodies

Draws == 0..(RngRange - 1)

\* The number of requests the server is given in one behaviour.
MaxReq == 1

\* The state main() leaves for `run` with no ADDRESS and no file: the
\* server runs on the default address.
ServingWith(n) ==
    /\ pc = "serving"
    /\ argv = [sub |-> <<"run">>, address |-> None]
    /\ envAddress = None
    /\ file = [kind |-> "missing"]
    /\ config = None
    /\ matches = GetMatchesOf([sub |-> <<"run">>, address |-> None])
    /\ loggerInit = TRUE
    /\ emitted = << [level |-> "info", msg |-> "Rand Microservice - v0.1.0"],
                    [level |-> "trace", msg |-> "Starting..."],
                    [level |-> "debug", msg |-> "Trying to bind server to address"],
                    [level |-> "trace", msg |-> "Creating service handler..."],
                    [level |-> "info", msg |-> "Used address"],
                    [level |-> "debug", msg |-> "Run!"] >>
    /\ consulted = {"file", "args", "env"}
    /\ addr = Some(DefaultAddr)
    /\ reqs = [i \in 1..n |-> Idle]
    /\ sent = <<>>

Init == ServingWith(MaxReq)

Next ==
    \E i \in 1..MaxReq :
        \/ \E m \in Methods, p \in Paths, q \in Queries : Dispatch(i, m, p, q)
        \/ \E b \in Bodies, r \in Draws : BodyRead(i, b, r)

Spec == Init /\ [][Next]_vars

(* Concurrent requests: ConcReq of them, over inputs that cover each       *)
(* outcome (404, 422 of either kind, 200, a panicking sample).             *)

ConcReq == 2

ConcQueries == {None, Some("format=xml")}

ConcBodies ==
    { JObj("distribution" :> JStr("bogus")),
      Request("uniform", "start" :> JInt(FALSE, <<0>>) @@ "end" :> JInt(FALSE, <<3>>)),
      Request("uniform", "start" :> JInt(FALSE, <<3>>) @@ "end" :> JInt(FALSE, <<0>>)),
      Request("bernoulli", "p" :> JFloat(F64Den \div 2)) }

InitConc == ServingWith(ConcReq)

NextConc ==
    \E i \in 1..ConcReq :
        \/ \E m \in Methods, q \in ConcQueries : Dispatch(i, m, "/random", q)
        \/ \E b \in ConcBodies, r \in Draws : BodyRead(i, b, r)

SpecConc == InitConc /\ [][NextConc]_vars

----------------------------------------------------------------------------
(* Properties of the HTTP side.                                            *)

Slots == DOMAIN reqs

\* The request is POST /random.
OnRoute(r) == r.method = "POST" /\ r.path = "/random"

\* The body of the request has been read in full.
BodyWasRead(r) == r.state \in {"done", "panicked"} /\ r.body.some

TextBody(words) == [kind |-> "text", text |-> words]

\* C1: a request that is not (POST, "/random") is answered at once with 404
\* and the body "Not Found", its body never read; POST /random is never
\* answered with 404.
C1_Routing ==
    \A i \in Slots : LET r == reqs[i] IN
        r.state # "idle" =>
            IF OnRoute(r)
            THEN r.resp.some => r.resp.val.status # 404
            ELSE /\ r.state = "done"
                 /\ r.resp = Some([status |-> 404, body |-> TextBody(<<"Not Found">>)])
                 /\ r.body = None

\* POST /random/ (a path other than "/random") is answered 404.
C1_Witness ==
    \E i \in Slots :
        /\ reqs[i].state = "done"
        /\ reqs[i].method = "POST"
        /\ reqs[i].path = "/random/"
        /\ reqs[i].resp.val.status = 404

\* Order of digit strings without leading zeros.
MagLess(a, b) ==
    \/ Len(a) < Len(b)
    \/ /\ Len(a) = Len(b)
       /\ \E k \in 1..Len(a) :
            /\ a[k] < b[k]
            /\ \A l \in 1..(k - 1) : a[l] = b[l]

\* Order of integer tokens as integers.
TokenLess(a, b) ==
    IF a.neg /\ ~b.neg THEN TRUE
    ELSE IF ~a.neg /\ b.neg THEN FALSE
    ELSE IF a.neg THEN MagLess(b.digits, a.digits)
    ELSE MagLess(a.digits, b.digits)

\* The token is a 32-bit signed integer.
FitsI32(a) ==
    IF a.neg THEN ~MagLess(<<2, 1, 4, 7, 4, 8, 3, 6, 4, 8>>, a.digits)
    ELSE ~MagLess(<<2, 1, 4, 7, 4, 8, 3, 6, 4, 7>>, a.digits)

\* The body is {"distribution":"uniform","parameters":{"start":a,"end":b}}
\* with integer tokens a < b.
UniformLowHigh(b) ==
    /\ b.t = "object"
    /\ Keys(b) = {"distribution", "parameters"}
    /\ b.fields["distribution"] = JStr("uniform")
    /\ b.fields["parameters"].t = "object"
    /\ Keys(b.fields["parameters"]) = {"start", "end"}
    /\ b.fields["parameters"].fields["start"].t = "int"
    /\ b.fields["parameters"].fields["end"].t = "int"
    /\ TokenLess(b.fields["parameters"].fields["start"],
                 b.fields["parameters"].fields["end"])

StartOf(b) == b.fields["parameters"].fields["start"]

EndOf(b) == b.fields["parameters"].fields["end"]

\* The response is 200 {"value": X}, X a whole number with low <= X < high.
UniformAnswer(r) ==
    /\ r.state = "done"
    /\ r.resp.some
    /\ r.resp.val.status = 200
    /\ r.resp.val.body.kind = "json"
    /\ LET x == r.resp.val.body.value
           low == DecodeI32(StartOf(r.body.val)).val
           high == DecodeI32(EndOf(r.body.val)).val IN
         /\ x % F64Den = 0
         /\ low * F64Den <= x
         /\ x < high * F64Den

\* C2 as claimed: for all integers low < high, a uniform request with no
\* query string or format=json is answered 200 {"value": X}, low <= X < high.
C2_UniformAllIntegers ==
    \A i \in Slots : LET r == reqs[i] IN
        ( /\ r.state # "idle"
          /\ OnRoute(r)
          /\ r.query \in {None, Some("format=json")}
          /\ BodyWasRead(r)
          /\ UniformLowHigh(r.body.val) )
        => UniformAnswer(r)

\* C2 as amended: the same for all 32-bit signed integers low < high.
C2_UniformI32 ==
    \A i \in Slots : LET r == reqs[i] IN
        ( /\ r.state # "idle"
          /\ OnRoute(r)
          /\ r.query \in {None, Some("format=json")}
          /\ BodyWasRead(r)
          /\ UniformLowHigh(r.body.val)
          /\ FitsI32(StartOf(r.body.val))
          /\ FitsI32(EndOf(r.body.val)) )
        => UniformAnswer(r)

\* uniform 0..3 answered with 2, the largest value below high.
C2_Witness ==
    \E i \in Slots :
        /\ reqs[i].state = "done"
        /\ reqs[i].query = None
        /\ reqs[i].body = Some(Request("uniform", "start" :> JInt(FALSE, <<0>>)
                                                  @@ "end" :> JInt(FALSE, <<3>>)))
        /\ reqs[i].resp = Some([status |-> 200,
                                body |-> [kind |-> "json", value |-> 2 * F64Den]])

\* C3: every POST /random whose body has been read is answered, with 200 or
\* 422 only, and a failure at decode, sample or serialize time is answered
\* 422 with the error's description as a text body.
C3_FailureMapping ==
    \A i \in Slots : LET r == reqs[i] IN
        (r.state # "idle" /\ OnRoute(r) /\ r.body.some) =>
            /\ r.resp.some
            /\ r.resp.val.status \in {200, 422}
            /\ r.resp.val.status = 422 =>
                   r.resp.val.body.kind = "text" /\ Len(r.resp.val.body.text) > 0

\* What the claim takes the format of a query string to be: the string
\* value of its format key; "json" when the key is absent, is not a string,
\* or the query string does not parse.
ClaimedFormat(q) ==
    CASE q = None                 -> "json"
      [] q = Some("format=json")  -> "json"
      [] q = Some("format=xml")   -> "xml"
      [] q = Some("format[]=xml") -> "json"
      [] q = Some("seed=1")       -> "json"
      [] q = Some("format=%FF")   -> "json"

\* C4: with an otherwise valid body, a format other than "json" is answered
\* 422 with a body naming the rejected format; 200 is answered only when the
\* resolved format is "json", which it is when the format key is absent or
\* the query string is malformed.
C4_UnsupportedFormat ==
    \A i \in Slots : LET r == reqs[i] IN
        (r.state # "idle" /\ OnRoute(r)) =>
            /\ r.format = Some(ClaimedFormat(r.query))
            /\ (r.state = "done" /\ r.value.some /\ ClaimedFormat(r.query) # "json") =>
                   /\ r.resp.val.status = 422
                   /\ r.resp.val.body.kind = "text"
                   /\ \E k \in 1..Len(r.resp.val.body.text) :
                          r.resp.val.body.text[k] = ClaimedFormat(r.query)
            /\ (r.state = "done" /\ r.resp.val.status = 200) =>
                   ClaimedFormat(r.query) = "json"

\* format=xml with a valid uniform body: 422 naming xml.
C4_Witness ==
    \E i \in Slots :
        /\ reqs[i].state = "done"
        /\ reqs[i].query = Some("format=xml")
        /\ reqs[i].value.some
        /\ reqs[i].resp = Some([status |-> 422,
                                body |-> TextBody(<<"unsupported format", "xml">>)])

\* The request a slot holds decides its outcome: 404 off the route, and on
\* the route the format of its own query string and, once the body is read,
\* the response the closure computes from its own format, body and draw.
OwnOutcome(r) ==
    IF ~OnRoute(r)
    THEN r.state = "done" /\ r.resp = Some(NotFoundResponse)
    ELSE /\ r.format = Some(ClaimedFormat(r.query))
         /\ r.state = "reading" => r.resp = None /\ r.body = None
         /\ r.state # "reading" =>
              LET out == Respond(ClaimedFormat(r.query), r.body.val,
                                 IF r.draw.some THEN r.draw.val ELSE 0) IN
                /\ r.state = (IF out.panic THEN "panicked" ELSE "done")
                /\ r.resp = (IF out.panic THEN None ELSE Some(out.resp))

\* A step touches one request only, never a finished one, and nothing of
\* the process state the requests share.
OneRequestStep ==
    /\ UNCHANGED mainVars
    /\ \A i \in Slots :
         /\ reqs[i].state \in {"done", "panicked"} => reqs'[i] = reqs[i]
         /\ reqs'[i] # reqs[i] => \A j \in Slots \ {i} : reqs'[j] = reqs[j]

\* C7: under any interleaving each response is decided by the request's own
\* method, path, query string, body and draw, and a request that ends in an
\* error changes nothing another request observes.
C7_Isolation ==
    /\ [](\A i \in Slots : reqs[i].state # "idle" => OwnOutcome(reqs[i]))
    /\ [][OneRequestStep]_vars

\* A request ended in a panic of the sampling step; a request that arrived
\* after it was answered 200.
C7_Witness ==
    \E i, j \in Slots :
        /\ reqs[i].state = "panicked"
        /\ reqs[j].state = "done"
        /\ reqs[j].resp.val.status = 200
        /\ reqs[i].answered <= reqs[j].arrived

\* The body is {"distribution":"bernoulli","parameters":{"p":tok}}.
BernoulliWith(b, tok) == b = Request("bernoulli", "p" :> tok)

\* C8: every value sampled for a bernoulli request is 0.0 or 1.0; p = 0
\* yields 0.0 and p = 1 yields 1.0 for every draw.
C8_BernoulliEndpoints ==
    \A i \in Slots : LET r == reqs[i] IN
        (r.state # "idle" /\ OnRoute(r) /\ BodyWasRead(r)) =>
            /\ (\E tok \in {JInt(FALSE, <<0>>), JFloat(F64Den \div 2), JInt(FALSE, <<1>>)} :
                    BernoulliWith(r.body.val, tok))
                 => r.value \in {Some(0), Some(F64Den)}
            /\ BernoulliWith(r.body.val, JInt(FALSE, <<0>>)) => r.value = Some(0)
            /\ BernoulliWith(r.body.val, JInt(FALSE, <<1>>)) => r.value = Some(F64Den)

\* p = 0 with the smallest raw word still yields 0.0.
C8_Witness ==
    \E i \in Slots :
        /\ reqs[i].state = "done"
        /\ reqs[i].body.some
        /\ BernoulliWith(reqs[i].body.val, JInt(FALSE, <<0>>))
        /\ reqs[i].draw = Some(0)
        /\ reqs[i].value = Some(0)

====
